---- MODULE Spec2Model ----
(***************************************************************************)
(* A model of the museum scraper (src/src/scraper.py): the cache wrapper   *)
(* get_museum_data, the generation pipeline (link generator, feature       *)
(* extraction, table normaliser) and the text cleaners.                    *)
(*                                                                         *)
(* Text is a sequence of one-character strings, so that the regular        *)
(* expressions, str.strip, str.lower and str.split of the source are       *)
(* computed character by character.  A Python float is an IEEE-754 binary64*)
(* value, kept exactly as mant * 2^exp with an arbitrary-precision mant.   *)
(***************************************************************************)
EXTENDS Integers, Sequences, FiniteSets, TLC

-----------------------------------------------------------------------------
(* Characters *)

\* U+2248 (the approximation glyph of the source's character class [≈~]).
ApproxGlyph == "approx"

DigitChars == <<"0", "1", "2", "3", "4", "5", "6", "7", "8", "9">>

LowerLetters == <<"a", "b", "c", "d", "e", "f", "g", "h", "i", "j", "k", "l", "m",
                  "n", "o", "p", "q", "r", "s", "t", "u", "v", "w", "x", "y", "z">>

UpperLetters == <<"A", "B", "C", "D", "E", "F", "G", "H", "I", "J", "K", "L", "M",
                  "N", "O", "P", "Q", "R", "S", "T", "U", "V", "W", "X", "Y", "Z">>

Range(s) == {s[i] : i \in DOMAIN s}

\* \d
IsDigit(c) == c \in Range(DigitChars)

\* [a-zA-Z]
IsLetter(c) == c \in Range(LowerLetters) \cup Range(UpperLetters)

\* \s, and the characters str.strip() removes
IsSpace(c) == c \in {" ", "\t", "\n"}

\* str.lower()
Lower(s) ==
    [i \in DOMAIN s |->
        IF s[i] \in Range(UpperLetters)
        THEN LowerLetters[CHOOSE k \in 1..26 : UpperLetters[k] = s[i]]
        ELSE s[i]]

RECURSIVE LStrip(_)
LStrip(s) == IF s # <<>> /\ IsSpace(Head(s)) THEN LStrip(Tail(s)) ELSE s

RECURSIVE RStrip(_)
RStrip(s) ==
    IF s # <<>> /\ IsSpace(s[Len(s)]) THEN RStrip(SubSeq(s, 1, Len(s) - 1)) ELSE s

\* str.strip()
Strip(s) == RStrip(LStrip(s))

\* The length of the longest prefix of s whose characters all satisfy the
\* class (a greedy X* of a regular expression).
RECURSIVE RunDigits(_)
RunDigits(s) == IF s # <<>> /\ IsDigit(Head(s)) THEN 1 + RunDigits(Tail(s)) ELSE 0

RECURSIVE RunSpaces(_)
RunSpaces(s) == IF s # <<>> /\ IsSpace(Head(s)) THEN 1 + RunSpaces(Tail(s)) ELSE 0

RECURSIVE RunLetters(_)
RunLetters(s) == IF s # <<>> /\ IsLetter(Head(s)) THEN 1 + RunLetters(Tail(s)) ELSE 0

Drop(s, n) == SubSeq(s, n + 1, Len(s))

Take(s, n) == SubSeq(s, 1, n)

\* str.replace(c, '')
RECURSIVE RemoveChar(_, _)
RemoveChar(s, c) ==
    IF s = <<>> THEN <<>>
    ELSE (IF Head(s) = c THEN <<>> ELSE <<Head(s)>>) \o RemoveChar(Tail(s), c)

\* The decimal digits of a natural number.
RECURSIVE NatToText(_)
NatToText(n) ==
    IF n < 10 THEN <<DigitChars[n + 1]>>
    ELSE NatToText(n \div 10) \o <<DigitChars[(n % 10) + 1]>>

\* The value of a sequence of decimal digits.
RECURSIVE TextToNat(_)
TextToNat(s) ==
    IF s = <<>> THEN 0
    ELSE 10 * TextToNat(SubSeq(s, 1, Len(s) - 1)) + (CHOOSE d \in 0..9 : DigitChars[d + 1] = s[Len(s)])

-----------------------------------------------------------------------------
(* Arbitrary-precision naturals: little-endian limbs in base 2^10, no       *)
(* leading zero limb (<<>> is 0).  They carry the 53-bit significands and   *)
(* the exact products of binary64 arithmetic.                               *)

LimbBits == 5 + 5

Base == 2 ^ LimbBits

RECURSIVE BigNorm(_)
BigNorm(a) ==
    IF a # <<>> /\ a[Len(a)] = 0 THEN BigNorm(SubSeq(a, 1, Len(a) - 1)) ELSE a

RECURSIVE BigFromInt(_)
BigFromInt(n) == IF n = 0 THEN <<>> ELSE <<n % Base>> \o BigFromInt(n \div Base)

RECURSIVE BigToInt(_)
BigToInt(a) == IF a = <<>> THEN 0 ELSE a[1] + Base * BigToInt(Tail(a))

RECURSIVE BigMulCarry(_, _, _)
BigMulCarry(a, c, carry) ==
    IF a = <<>> THEN BigFromInt(carry)
    ELSE LET t == a[1] * c + carry
         IN  <<t % Base>> \o BigMulCarry(Tail(a), c, t \div Base)

\* a * c for a small c
BigMulSmall(a, c) == BigNorm(BigMulCarry(a, c, 0))

\* <<a div c, a mod c>> for a small c (the quotient may have leading zeros)
RECURSIVE BigDivRem(_, _)
BigDivRem(a, c) ==
    IF a = <<>> THEN << <<>>, 0 >>
    ELSE LET hi == BigDivRem(Tail(a), c)
             t  == hi[2] * Base + a[1]
         IN  << <<t \div c>> \o hi[1], t % c >>

RECURSIVE BigAddOne(_)
BigAddOne(a) ==
    IF a = <<>> THEN <<1>>
    ELSE IF a[1] + 1 < Base THEN <<a[1] + 1>> \o Tail(a)
    ELSE <<0>> \o BigAddOne(Tail(a))

RECURSIVE IntBitLen(_)
IntBitLen(n) == IF n = 0 THEN 0 ELSE 1 + IntBitLen(n \div 2)

BigBitLen(a) == IF a = <<>> THEN 0 ELSE (Len(a) - 1) * LimbBits + IntBitLen(a[Len(a)])

\* a * 2^s
BigShiftLeft(a, s) ==
    IF a = <<>> THEN <<>>
    ELSE BigMulSmall([i \in 1..(s \div LimbBits) |-> 0] \o a, 2 ^ (s % LimbBits))

\* floor(a / 2^k)
RECURSIVE BigShiftRight(_, _)
BigShiftRight(a, k) ==
    IF a = <<>> \/ k = 0 THEN a
    ELSE IF k >= LimbBits THEN BigShiftRight(Tail(a), k - LimbBits)
    ELSE BigNorm(BigDivRem(a, 2 ^ k)[1])

\* a / c rounded to the nearest natural, ties to even (IEEE-754 default)
BigRoundDiv(a, c) ==
    LET qr == BigDivRem(a, c)
        q  == BigNorm(qr[1])
        r  == qr[2]
    IN  IF 2 * r > c \/ (2 * r = c /\ q # <<>> /\ q[1] % 2 = 1) THEN BigAddOne(q) ELSE q

-----------------------------------------------------------------------------
(* binary64 *)

\* The precision of a Python float's significand, in bits.
SignificandBits == 50 + 3

FZero == [mant |-> <<>>, exp |-> 0]

\* The canonical form of mant * 2^exp: mant odd, or zero.
RECURSIVE FNorm(_, _)
FNorm(m, e) ==
    IF m = <<>> THEN FZero
    ELSE IF m[1] = 0 THEN FNorm(Tail(m), e + LimbBits)
    ELSE IF m[1] % 2 = 0 THEN FNorm(BigNorm(BigDivRem(m, 2)[1]), e + 1)
    ELSE [mant |-> m, exp |-> e]

\* The least j >= 1 with n * 2^j >= d, for 0 < n < d.
RECURSIVE Doublings(_, _)
Doublings(n, d) == IF 2 * n >= d THEN 1 ELSE 1 + Doublings(2 * n, d)

\* float(text) for a text of digits with at most one point: the binary64
\* nearest to n / 10^d, where n is the value of the digits and d the number
\* of digits after the point.
ParseFloat(n, d) ==
    IF n = 0 THEN FZero
    ELSE LET den == 10 ^ d
             L   == IF n >= den THEN IntBitLen(n \div den) ELSE 1 - Doublings(n, den)
             s   == SignificandBits - L
         IN  FNorm(BigRoundDiv(BigShiftLeft(BigFromInt(n), s), den), 0 - s)

\* x * c in binary64, for a natural c that binary64 holds exactly.
FMulNat(x, c) ==
    LET p  == BigMulSmall(x.mant, c)
        bl == BigBitLen(p)
    IN  IF bl <= SignificandBits THEN FNorm(p, x.exp)
        ELSE FNorm(BigRoundDiv(p, 2 ^ (bl - SignificandBits)),
                   x.exp + (bl - SignificandBits))

\* int(x) for x >= 0: truncation toward zero.
FTrunc(x) ==
    IF x.exp >= 0 THEN BigToInt(BigShiftLeft(x.mant, x.exp))
    ELSE BigToInt(BigShiftRight(x.mant, 0 - x.exp))

\* The binary64 that holds the natural n (n < 2^31).
FOfNat(n) == FNorm(BigFromInt(n), 0)

-----------------------------------------------------------------------------
(* Python values *)

\* np.nan, the missing marker of a numeric field
NaN == [kind |-> "nan"]

Float(f) == [kind |-> "float", val |-> f]

\* A call that returned v
Returned(v) == [kind |-> "return", val |-> v]

\* A call that raised
Raised(exc) == [kind |-> "raise", exc |-> exc]

\* No call made yet
NotCalled == [kind |-> "none"]

-----------------------------------------------------------------------------
(* Scraper.clean_collection_size *)

\* re.sub(r'\[\d+\]|[≈~]', '', s): leftmost non-overlapping matches removed
RECURSIVE RemoveCitationsAndGlyphs(_)
RemoveCitationsAndGlyphs(s) ==
    IF s = <<>> THEN <<>>
    ELSE LET n == RunDigits(Tail(s))
         IN  IF Head(s) = "[" /\ n >= 1 /\ Len(s) >= n + 2 /\ s[n + 2] = "]"
             THEN RemoveCitationsAndGlyphs(Drop(s, n + 2))
             ELSE IF Head(s) \in {ApproxGlyph, "~"}
             THEN RemoveCitationsAndGlyphs(Tail(s))
             ELSE <<Head(s)>> \o RemoveCitationsAndGlyphs(Tail(s))

\* The length of the run of [\d,\.] at the head of s
RECURSIVE RunQuantity(_)
RunQuantity(s) ==
    IF s # <<>> /\ (IsDigit(Head(s)) \/ Head(s) \in {",", "."}) THEN 1 + RunQuantity(Tail(s)) ELSE 0

\* re.match(r"([\d,\.]+)\s*([a-zA-Z]+)", s): the two groups, or no match.
\* Each class is disjoint from the next, so the greedy match is the only one.
MatchQuantityUnit(s) ==
    LET n1 == RunQuantity(s)
        r1 == Drop(s, n1)
        r2 == Drop(r1, RunSpaces(r1))
        n3 == RunLetters(r2)
    IN  IF n1 >= 1 /\ n3 >= 1
        THEN [matched |-> TRUE, quantity |-> Take(s, n1), unit |-> Take(r2, n3)]
        ELSE [matched |-> FALSE]

CountChar(s, c) == Cardinality({i \in DOMAIN s : s[i] = c})

\* float(s) for s made of digits and points: Python accepts digits with at
\* most one point and at least one digit, and raises ValueError otherwise.
PyFloat(s) ==
    IF CountChar(s, ".") > 1 \/ \A i \in DOMAIN s : ~IsDigit(s[i])
    THEN Raised("ValueError")
    ELSE LET point == IF CountChar(s, ".") = 0 THEN Len(s) + 1
                      ELSE CHOOSE i \in DOMAIN s : s[i] = "."
         IN  Returned(ParseFloat(TextToNat(RemoveChar(s, ".")), IF point > Len(s) THEN 0 ELSE Len(s) - point))

TxtMillion == <<"m", "i", "l", "l", "i", "o", "n">>

Million == 10 ^ 6

\* The same with the unit compared as written (no .lower())
clean_collection_size_as_written(raw_size) ==
    LET clean == Strip(RemoveCitationsAndGlyphs(raw_size))
        match == MatchQuantityUnit(clean)
    IN  IF ~match.matched THEN Returned(NaN)
        ELSE LET quantity == PyFloat(RemoveChar(match.quantity, ","))
             IN  IF quantity.kind = "raise" THEN quantity
                 ELSE IF match.unit = TxtMillion
                 THEN Returned(Float(FMulNat(quantity.val, Million)))
                 ELSE Returned(Float(quantity.val))

clean_collection_size(raw_size) ==
    LET clean == Strip(RemoveCitationsAndGlyphs(raw_size))
        match == MatchQuantityUnit(clean)
    IN  IF ~match.matched THEN Returned(NaN)
        ELSE LET quantity == PyFloat(RemoveChar(match.quantity, ","))
             IN  IF quantity.kind = "raise" THEN quantity
                 ELSE IF Lower(match.unit) = TxtMillion
                 THEN Returned(Float(FMulNat(quantity.val, Million)))
                 ELSE Returned(Float(quantity.val))

-----------------------------------------------------------------------------
(* pandas.DataFrame: the column labels in order, and the rows in index      *)
(* order (the index is always the RangeIndex 0..n-1 here), each row a       *)
(* function from column label to cell.  A cell is a str, an int, a float    *)
(* or NaN.                                                                  *)

Str(s) == [kind |-> "str", val |-> s]

IntCell(n) == [kind |-> "int", val |-> n]

DataFrame(columns, rows) == [columns |-> columns, rows |-> rows]

HasColumn(df, c) == c \in Range(df.columns)

\* The index of the first occurrence of c in s, or 0.
RECURSIVE IndexOf(_, _)
IndexOf(s, c) ==
    IF s = <<>> THEN 0
    ELSE IF Head(s) = c THEN 1
    ELSE LET r == IndexOf(Tail(s), c) IN IF r = 0 THEN 0 ELSE r + 1

\* x.split('[')[0]
SplitBracket(s) == IF IndexOf(s, "[") = 0 THEN s ELSE Take(s, IndexOf(s, "[") - 1)

\* The length of the match of \(.*?\) at the head of s, or 0: '.' matches
\* no newline, and the lazy .*? stops at the first ')'.
ParenMatchLen(s) ==
    IF s = <<>> \/ Head(s) # "(" THEN 0
    ELSE LET close == IndexOf(Tail(s), ")")
             line  == IndexOf(Tail(s), "\n")
         IN  IF close = 0 \/ (line # 0 /\ line < close) THEN 0 ELSE close + 1

\* re.sub(r'\s*\(.*?\)', '', s)
RECURSIVE RemoveParentheticals(_)
RemoveParentheticals(s) ==
    IF s = <<>> THEN <<>>
    ELSE LET ns == RunSpaces(s)
             np == ParenMatchLen(Drop(s, ns))
         IN  IF np > 0 THEN RemoveParentheticals(Drop(s, ns + np))
             ELSE <<Head(s)>> \o RemoveParentheticals(Tail(s))

\* re.sub(r'^>', '', s)
RemoveLeadingGreaterThan(s) == IF s # <<>> /\ Head(s) = ">" THEN Tail(s) ELSE s

\* re.sub(r'\+', '_plus', s)
RECURSIVE ReplacePlus(_)
ReplacePlus(s) ==
    IF s = <<>> THEN <<>>
    ELSE (IF Head(s) = "+" THEN <<"_", "p", "l", "u", "s">> ELSE <<Head(s)>>)
         \o ReplacePlus(Tail(s))

\* f"{n:,}"
RECURSIVE GroupThousands(_)
GroupThousands(d) ==
    IF Len(d) <= 3 THEN d
    ELSE GroupThousands(Take(d, Len(d) - 3)) \o <<",">> \o Drop(d, Len(d) - 3)

\* int(s), as astype('int64') applies it to a str: digits, with surrounding
\* whitespace allowed; anything else raises ValueError.
PyInt(s) ==
    LET t == Strip(s)
    IN  IF t # <<>> /\ \A i \in DOMAIN t : IsDigit(t[i])
        THEN Returned(TextToNat(t))
        ELSE Raised("ValueError")

-----------------------------------------------------------------------------
(* Scraper.convert_million_values *)

\* [\d,]
IsGroupedDigit(c) == IsDigit(c) \/ c = ","

RECURSIVE RunGroupedDigits(_)
RunGroupedDigits(s) ==
    IF s # <<>> /\ IsGroupedDigit(Head(s)) THEN 1 + RunGroupedDigits(Tail(s)) ELSE 0

\* r'([\d,]+(?:\.\d+)?)\s*(million)' with re.IGNORECASE, tried at the head
\* of s.  Each part is greedy and no shorter choice lets the rest match.
MatchMillionAt(s) ==
    LET n1  == RunGroupedDigits(s)
        r1  == Drop(s, n1)
        dec == IF r1 # <<>> /\ Head(r1) = "." /\ RunDigits(Tail(r1)) >= 1
               THEN 1 + RunDigits(Tail(r1)) ELSE 0
        r2  == Drop(r1, dec)
        r3  == Drop(r2, RunSpaces(r2))
    IN  IF n1 >= 1 /\ Len(r3) >= Len(TxtMillion)
           /\ Lower(Take(r3, Len(TxtMillion))) = TxtMillion
        THEN [matched |-> TRUE, quantity |-> Take(s, n1 + dec)]
        ELSE [matched |-> FALSE]

\* Series.str.extract(pattern): re.search, the leftmost match in the cell
RECURSIVE SearchMillion(_)
SearchMillion(s) ==
    IF s = <<>> THEN [matched |-> FALSE]
    ELSE IF MatchMillionAt(s).matched THEN MatchMillionAt(s)
    ELSE SearchMillion(Tail(s))

\* extracted[0] and the mask for one cell
ExtractMillion(cell) ==
    IF cell.kind = "str" THEN SearchMillion(cell.val) ELSE [matched |-> FALSE]

\* numbers = extracted[0].str.replace(',', '').astype(float), one cell
MillionNumber(cell) == PyFloat(RemoveChar(ExtractMillion(cell).quantity, ","))

\* (numbers[mask] * 1_000_000).apply(lambda x: f"{int(x):,}"), one cell
MillionText(cell) == GroupThousands(NatToText(FTrunc(FMulNat(MillionNumber(cell).val, Million))))

\* The function mutates df in place and returns None: the value here is the
\* frame afterwards, or the exception raised.
convert_million_values(df) ==
    IF ~HasColumn(df, "visitors") THEN Raised("KeyError")
    ELSE IF \E i \in DOMAIN df.rows :
               /\ ExtractMillion(df.rows[i]["visitors"]).matched
               /\ MillionNumber(df.rows[i]["visitors"]).kind = "raise"
    THEN Raised("ValueError")
    ELSE Returned([df EXCEPT !.rows = [i \in DOMAIN df.rows |->
             IF ExtractMillion(df.rows[i]["visitors"]).matched
             THEN [df.rows[i] EXCEPT !["visitors"] = Str(MillionText(@))]
             ELSE df.rows[i]]])

-----------------------------------------------------------------------------
(* Scraper.extract_first_city_part *)

\* s.split(r',\s*', n=1)[0]; Series.str leaves NaN where the cell is no str
FirstCityPartCell(cell) ==
    IF cell.kind # "str" THEN NaN
    ELSE IF IndexOf(cell.val, ",") = 0 THEN cell
    ELSE Str(Take(cell.val, IndexOf(cell.val, ",") - 1))

extract_first_city_part(df) ==
    [df EXCEPT !.rows = [i \in DOMAIN df.rows |->
                            [df.rows[i] EXCEPT !["city"] = FirstCityPartCell(@)]]]

-----------------------------------------------------------------------------
(* Scraper.clean_museum_table *)

CanonicalColumns == <<"name", "type", "collection_size", "visitors", "city", "country">>

\* df.rename(columns={...})
RenameColumn(c) ==
    CASE c = "Name" -> "name"
      [] c = "Visitors in 2023 or 2024" -> "visitors"
      [] c = "City" -> "city"
      [] c = "Country" -> "country"
      [] OTHER -> c

RenameColumns(df) ==
    DataFrame([i \in DOMAIN df.columns |-> RenameColumn(df.columns[i])],
              [i \in DOMAIN df.rows |->
                  [c \in {RenameColumn(k) : k \in Range(df.columns)} |->
                      df.rows[i][CHOOSE k \in Range(df.columns) : RenameColumn(k) = c]]])

\* df.dropna(how='all').reset_index(drop=True)
DropEmptyRows(df) ==
    LET Keep(row) == \E c \in Range(df.columns) : row[c].kind # "nan"
    IN  [df EXCEPT !.rows = SelectSeq(df.rows, Keep)]

\* df.map(lambda x: x.split('[')[0] if isinstance(x, str) else x)
StripCitations(df) ==
    [df EXCEPT !.rows = [i \in DOMAIN df.rows |->
        [c \in Range(df.columns) |->
            IF df.rows[i][c].kind = "str"
            THEN Str(SplitBracket(df.rows[i][c].val))
            ELSE df.rows[i][c]]]]

\* .str.replace(r'\s*\(.*?\)', '', regex=True).str.strip(), then
\* .str.replace(r'^>', '', regex=True).str.strip()
CleanVisitorsCell(cell) ==
    IF cell.kind = "str"
    THEN Str(Strip(RemoveLeadingGreaterThan(Strip(RemoveParentheticals(cell.val)))))
    ELSE NaN

\* .str.replace(r'\+', '_plus', regex=True).str.strip()
CleanNameCell(cell) ==
    IF cell.kind = "str" THEN Str(Strip(ReplacePlus(cell.val))) ELSE NaN

\* df['visitors'].str.replace(',', '').astype('int64'), one cell
VisitorsInt(cell) ==
    IF cell.kind = "str" THEN PyInt(RemoveChar(cell.val, ",")) ELSE Raised("ValueError")

\* df['collection_size'].astype(float), one cell
CollectionSizeFloat(cell) ==
    IF cell.kind \in {"float", "nan"} THEN Returned(cell)
    ELSE IF cell.kind = "int" THEN Returned(Float(FOfNat(cell.val)))
    ELSE Raised("ValueError")

\* df[['name', 'type', 'collection_size', 'visitors', 'city', 'country']]
ProjectCanonical(df) ==
    DataFrame(CanonicalColumns,
              [i \in DOMAIN df.rows |->
                  [c \in Range(CanonicalColumns) |-> df.rows[i][c]]])

\* Series.str raises AttributeError on a column that is no object column:
\* one with rows and no str among them (numbers and NaN only).
LacksStr(df, c) == df.rows # <<>> /\ \A i \in DOMAIN df.rows : df.rows[i][c].kind # "str"

clean_museum_table(df) ==
    LET d1 == StripCitations(RenameColumns(DropEmptyRows(df)))
    IN  IF ~HasColumn(d1, "visitors") \/ ~HasColumn(d1, "name") THEN Raised("KeyError")
        ELSE IF LacksStr(d1, "visitors") \/ LacksStr(d1, "name")
        THEN Raised("AttributeError")
        ELSE
        LET d2 == [d1 EXCEPT !.rows = [i \in DOMAIN d1.rows |->
                      [d1.rows[i] EXCEPT !["visitors"] = CleanVisitorsCell(@),
                                         !["name"] = CleanNameCell(@)]]]
            d3 == convert_million_values(d2)
        IN  IF d3.kind = "raise" THEN d3
            ELSE IF \E i \in DOMAIN d3.val.rows :
                        VisitorsInt(d3.val.rows[i]["visitors"]).kind = "raise"
            THEN Raised("ValueError")
            ELSE IF ~HasColumn(d1, "collection_size") THEN Raised("KeyError")
            ELSE IF \E i \in DOMAIN d3.val.rows :
                        CollectionSizeFloat(d3.val.rows[i]["collection_size"]).kind = "raise"
            THEN Raised("ValueError")
            ELSE IF ~HasColumn(d1, "city") THEN Raised("KeyError")
            ELSE IF LacksStr(d1, "city") THEN Raised("AttributeError")
            ELSE
            LET d4 == [d3.val EXCEPT !.rows = [i \in DOMAIN d3.val.rows |->
                          [d3.val.rows[i] EXCEPT
                              !["visitors"] = IntCell(VisitorsInt(@).val),
                              !["collection_size"] = CollectionSizeFloat(@).val]]]
                d5 == extract_first_city_part(d4)
            IN  IF \E c \in Range(CanonicalColumns) : ~HasColumn(d5, c)
                THEN Raised("KeyError")
                ELSE Returned(ProjectCanonical(d5))

-----------------------------------------------------------------------------
(* The listing table (a BeautifulSoup <table>): the labels of its header    *)
(* row, then its data rows (<tr>), each a sequence of <td> cells.  A cell   *)
(* has its text and what cell.find('a') gives: no anchor, an anchor without *)
(* href, or an anchor with an href (possibly empty).                        *)

NoAnchor == [a |-> "none"]

AnchorWithoutHref == [a |-> "nohref"]

Anchor(href) == [a |-> "href", href |-> href]

Cell(text, anchor) == [text |-> text, anchor |-> anchor]

WikiPrefix == <<"h", "t", "t", "p", "s", ":", "/", "/", "e", "n", ".", "w", "i", "k", "i", "p", "e", "d", "i", "a", ".", "o", "r", "g">>

\* The same without the test of link.get('href'): any <a> with an href
HasAnyHref(tr) ==
    /\ Len(tr) > 1
    /\ tr[1].anchor.a = "href"

\* link and link.get('href')
HasUsableLink(tr) ==
    /\ Len(tr) > 1
    /\ tr[1].anchor.a = "href"
    /\ tr[1].anchor.href # <<>>

\* Scraper.museum_wiki_link_generator, from counter value i on: the pairs
\* (i, url) it yields, in order.
RECURSIVE LinkGeneratorFrom(_, _)
LinkGeneratorFrom(trs, i) ==
    IF trs = <<>> THEN <<>>
    ELSE IF HasUsableLink(Head(trs))
    THEN << <<i, WikiPrefix \o Head(trs)[1].anchor.href>> >>
         \o LinkGeneratorFrom(Tail(trs), i + 1)
    ELSE LinkGeneratorFrom(Tail(trs), i)

museum_wiki_link_generator(table) == LinkGeneratorFrom(table.rows, 0)

\* pd.read_html hands the rows to TextParser, which skips blank lines: a row
\* with no cell, or with one cell of blank text.
KeptRows(table) ==
    LET Keep(tr) == ~(Len(tr) = 0 \/ (Len(tr) = 1 /\ Strip(tr[1].text) = <<>>))
    IN  SelectSeq(table.rows, Keep)

\* The text of the k-th cell of a row as TextParser sees it: a missing or
\* empty cell is NaN.
RawCell(tr, k) ==
    IF k > Len(tr) \/ Strip(tr[k].text) = <<>> THEN NaN ELSE Str(Strip(tr[k].text))

\* A number as TextParser reads it with thousands=',' (read_html's default)
IsNumeralText(s) ==
    /\ s # <<>>
    /\ IsDigit(Head(s))
    /\ \A i \in DOMAIN s : IsGroupedDigit(s[i])

\* TextParser converts a column whose cells are all numerals (or missing) to
\* numbers; any other column keeps its texts.
IsNumericColumn(trs, k) ==
    /\ \E i \in DOMAIN trs : RawCell(trs[i], k).kind = "str"
    /\ \A i \in DOMAIN trs :
          RawCell(trs[i], k).kind = "str" => IsNumeralText(RawCell(trs[i], k).val)

ParsedCell(trs, i, k) ==
    LET raw == RawCell(trs[i], k)
    IN  IF raw.kind = "str" /\ IsNumericColumn(trs, k)
        THEN IntCell(TextToNat(RemoveChar(raw.val, ",")))
        ELSE raw

\* pd.read_html(StringIO(str(target_table)))[0]
read_html(table) ==
    LET trs == KeptRows(table)
    IN  DataFrame(table.header,
                  [i \in DOMAIN trs |->
                      [c \in Range(table.header) |->
                          ParsedCell(trs, i, CHOOSE k \in DOMAIN table.header :
                                                  table.header[k] = c)]])

-----------------------------------------------------------------------------
(* Detail pages and Scraper.get_museum_features / Scraper.handle_infobox.   *)
(* A detail page is its infobox, if any: the rows (<tr>) of the table, each *)
(* the texts of its <th>/<td> cells.                                        *)

NoInfobox == [present |-> FALSE]

Infobox(rows) == [present |-> TRUE, rows |-> rows]

TYPE == "type"

COLLECTION_SIZE == "collection_size"

\* MODEL_FEATURE_REVERSE_MAPPING
ReverseMappingKeys ==
    { <<"t", "y", "p", "e">>, <<"g", "e", "n", "r", "e">>, <<"c", "o", "l", "l", "e", "c", "t", "i", "o", "n", " ", "s", "i", "z", "e">>, <<"h", "o", "l", "d", "i", "n", "g", "s">> }

MODEL_FEATURE_REVERSE_MAPPING(key) ==
    IF key \in {<<"t", "y", "p", "e">>, <<"g", "e", "n", "r", "e">>} THEN TYPE ELSE COLLECTION_SIZE

\* MODEL_FEATURES: the default of each feature
MODEL_FEATURES(f) == IF f = TYPE THEN Str(<<"N", "/", "A">>) ELSE NaN

\* features = {}: a key the dict does not hold is unset
EmptyFeatures == [f \in {TYPE, COLLECTION_SIZE} |-> [kind |-> "unset"]]

\* Scraper.handle_infobox: the (key, value) pairs it yields, in order
RECURSIVE handle_infobox(_)
handle_infobox(rows) ==
    IF rows = <<>> THEN <<>>
    ELSE (IF Len(Head(rows)) >= 2
          THEN << <<Lower(Head(rows)[1]), Head(rows)[2]>> >>
          ELSE <<>>)
         \o handle_infobox(Tail(rows))

\* The loop of get_museum_features over the pairs: the dict, or the
\* exception clean_collection_size raised.
RECURSIVE CollectFeatures(_, _)
CollectFeatures(pairs, features) ==
    IF pairs = <<>> THEN Returned(features)
    ELSE LET key   == Head(pairs)[1]
             value == Head(pairs)[2]
         IN  IF key \notin ReverseMappingKeys
             THEN CollectFeatures(Tail(pairs), features)
             ELSE IF MODEL_FEATURE_REVERSE_MAPPING(key) = TYPE
             THEN CollectFeatures(Tail(pairs), [features EXCEPT ![TYPE] = Str(value)])
             ELSE LET size == clean_collection_size(value)
                  IN  IF size.kind = "raise" THEN size
                      ELSE CollectFeatures(Tail(pairs),
                               [features EXCEPT ![COLLECTION_SIZE] = size.val])

\* Scraper.get_museum_features, given the page requests.get returned
get_museum_features(page) ==
    IF page.present THEN CollectFeatures(handle_infobox(page.rows), EmptyFeatures)
    ELSE Returned(EmptyFeatures)

\* features.get(f, self.MODEL_FEATURES[f])
FeatureOrDefault(features, f) ==
    IF features[f].kind = "unset" THEN MODEL_FEATURES(f) ELSE features[f]

\* df.at[i, f] = v, for a row label i of the frame (0-based): a column the
\* frame lacks is added, NaN in the other rows.
SetAt(df, i, f, v) ==
    LET cols == IF HasColumn(df, f) THEN df.columns ELSE Append(df.columns, f)
    IN  DataFrame(cols,
                  [r \in DOMAIN df.rows |->
                      [c \in Range(cols) |->
                          IF r = i + 1 /\ c = f THEN v
                          ELSE IF c \in Range(df.columns) THEN df.rows[r][c]
                          ELSE NaN]])

\* The body of the loop of add_features for one (i, url), after the fetch
AttachFeatures(df, i, features) ==
    SetAt(SetAt(df, i, TYPE, FeatureOrDefault(features, TYPE)),
          i, COLLECTION_SIZE, FeatureOrDefault(features, COLLECTION_SIZE))

-----------------------------------------------------------------------------
(* The cache file: df.to_csv(output_file) and pd.read_csv(output_file).     *)
(* The file is its header fields and its lines of fields.  A field is the   *)
(* text written; the digits of a float field are not modelled, the field    *)
(* holds the binary64 itself.                                               *)

Absent == [exists |-> FALSE]

TextField(s) == [kind |-> "text", val |-> s]

\* One cell as to_csv writes it (na_rep is '')
ToField(cell) ==
    CASE cell.kind = "str" -> TextField(cell.val)
      [] cell.kind = "int" -> TextField(NatToText(cell.val))
      [] cell.kind = "nan" -> TextField(<<>>)
      [] OTHER -> cell

\* df.to_csv(path): index=True by default, so every line starts with the
\* row label and the header with an empty label for that column.
to_csv(df) ==
    [exists |-> TRUE,
     header |-> <<"">> \o df.columns,
     lines  |-> [i \in DOMAIN df.rows |->
                    <<TextField(NatToText(i - 1))>>
                    \o [k \in DOMAIN df.columns |-> ToField(df.rows[i][df.columns[k]])]]]

\* The texts read_csv takes for a missing value (its default na_values that
\* occur here)
NaTexts == { <<>>, <<"N", "/", "A">>, <<"N", "A">>, <<"n", "a", "n">>, <<"N", "a", "N">>, <<"n", "u", "l", "l">>, <<"N", "o", "n", "e">> }

\* read_csv infers a column's type from all its fields: integers when every
\* field is digits; otherwise a text field stays a str and a missing one is NaN.
IsIntColumn(file, k) ==
    /\ file.lines # <<>>
    /\ \A i \in DOMAIN file.lines :
          LET fld == file.lines[i][k]
          IN  /\ fld.kind = "text"
              /\ fld.val # <<>>
              /\ \A j \in DOMAIN fld.val : IsDigit(fld.val[j])

FromField(file, i, k) ==
    LET fld == file.lines[i][k]
    IN  IF fld.kind = "nan" \/ (fld.kind = "text" /\ fld.val \in NaTexts) THEN NaN
        ELSE IF fld.kind = "float" THEN fld
        ELSE IF IsIntColumn(file, k) THEN IntCell(TextToNat(fld.val))
        ELSE Str(fld.val)

\* A header field that is empty is named after its position.
CsvColumn(file, k) == IF file.header[k] = "" THEN "Unnamed: 0" ELSE file.header[k]

\* pd.read_csv(path): no index_col, so every column of the file, the row
\* labels included, is a column of the frame.
read_csv(file) ==
    DataFrame([k \in DOMAIN file.header |-> CsvColumn(file, k)],
              [i \in DOMAIN file.lines |->
                  [c \in {CsvColumn(file, k) : k \in DOMAIN file.header} |->
                      FromField(file, i, CHOOSE k \in DOMAIN file.header :
                                                CsvColumn(file, k) = c)]])

-----------------------------------------------------------------------------
(* Scraper.add_features and Scraper.generate_museum_dataset, given what the *)
(* web serves: the listing table and the detail page of each URL.           *)

RECURSIVE AddFeaturesFrom(_, _, _)
AddFeaturesFrom(df, links, pages) ==
    IF links = <<>> \/ Head(links)[1] >= Len(df.rows) THEN Returned(df)
    ELSE LET features == get_museum_features(pages[Head(links)[2]])
         IN  IF features.kind = "raise" THEN features
             ELSE AddFeaturesFrom(AttachFeatures(df, Head(links)[1], features.val),
                                  Tail(links), pages)

add_features(df, table, pages) ==
    AddFeaturesFrom(df, museum_wiki_link_generator(table), pages)

generate_museum_dataset(site) ==
    LET df == add_features(read_html(site.table), site.table, site.pages)
    IN  IF df.kind = "raise" THEN df ELSE clean_museum_table(df.val)

\* The same without the test of regenerate
CacheFileExists(file, regen) == file.exists

\* output_file.exists() and not regenerate
CacheHit(file, regen) == file.exists /\ ~regen

-----------------------------------------------------------------------------
(* Bounds and the inputs drawn within them *)

\* Data rows of the listing table the web serves
MaxListingRows == 2

\* Data rows of a table given to the link generator alone
MaxLinkRows == 3

\* Rows of an infobox
MaxInfoboxRows == 3

\* Rows of a frame given to a table cleaner alone
MaxFrameRows == 2

SeqsUpTo(S, n) == UNION {[1..k -> S] : k \in 0..n}

ListingHeader == <<"Name", "Visitors in 2023 or 2024", "City", "Country">>

HrefA == <<"/", "w", "i", "k", "i", "/", "A">>

HrefB == <<"/", "w", "i", "k", "i", "/", "B">>

\* A museum with a link, a "million" visitors text with a year and a citation
RowMPlus ==
    << Cell(<<"M", "+">>, Anchor(HrefA)), Cell(<<"4", ".", "3", " ", "m", "i", "l", "l", "i", "o", "n", " ", "(", "2", "0", "2", "3", ")", "[", "1", "]">>, NoAnchor),
       Cell(<<"H", "o", "n", "g", " ", "K", "o", "n", "g", ",", " ", "C", "h", "i", "n", "a">>, NoAnchor), Cell(<<"C", "h", "i", "n", "a">>, NoAnchor) >>

\* A museum with a link and a comma-grouped visitors text
RowLouvre ==
    << Cell(<<"L", "o", "u", "v", "r", "e">>, Anchor(HrefB)), Cell(<<"8", ",", "7", "0", "0", ",", "0", "0", "0">>, NoAnchor),
       Cell(<<"P", "a", "r", "i", "s">>, NoAnchor), Cell(<<"F", "r", "a", "n", "c", "e">>, NoAnchor) >>

\* A museum whose first cell holds no link
RowTate ==
    << Cell(<<"T", "a", "t", "e">>, NoAnchor), Cell(<<">", "4", ".", "1", " ", "m", "i", "l", "l", "i", "o", "n">>, NoAnchor),
       Cell(<<"L", "o", "n", "d", "o", "n">>, NoAnchor), Cell(<<"U", "K">>, NoAnchor) >>

\* A row of one cell
RowShort == << Cell(<<"P", "r", "a", "d", "o">>, Anchor(HrefA)) >>

\* A row of empty cells
RowEmpty == << Cell(<<>>, NoAnchor), Cell(<<>>, NoAnchor) >>

ListingRows == {RowMPlus, RowLouvre, RowTate, RowShort, RowEmpty}

PageArt == Infobox(<< <<<<"G", "e", "n", "r", "e">>, <<"A", "r", "t">>>>, <<<<"L", "o", "c", "a", "t", "i", "o", "n">>, <<"H", "o", "n", "g", " ", "K", "o", "n", "g">>>> >>)

PageHistory ==
    Infobox(<< <<<<"T", "y", "p", "e">>, <<"A", "r", "t">>>>, <<<<"H", "o", "l", "d", "i", "n", "g", "s">>, <<"1", ".", "2", " ", "m", "i", "l", "l", "i", "o", "n", "[", "3", "]">>>>,
               <<<<"t", "y", "p", "e">>, <<"H", "i", "s", "t", "o", "r", "y">>>> >>)

PageMalformedSize == Infobox(<< <<<<"C", "o", "l", "l", "e", "c", "t", "i", "o", "n", " ", "s", "i", "z", "e">>, <<"1", ".", "2", ".", "3", " ", "m", "i", "l", "l", "i", "o", "n">>>> >>)

Urls == {WikiPrefix \o HrefA, WikiPrefix \o HrefB}

Sites ==
    [table : {[header |-> ListingHeader, rows |-> r] : r \in SeqsUpTo(ListingRows, MaxListingRows)},
     pages : [Urls -> {NoInfobox, PageArt, PageHistory, PageMalformedSize}]]

\* The site an earlier run scraped, and the frame it cached
EarlierSite ==
    [table |-> [header |-> ListingHeader,
                rows |-> << << Cell(<<"P", "r", "a", "d", "o">>, Anchor(HrefA)), Cell(<<"3", ".", "2", " ", "m", "i", "l", "l", "i", "o", "n">>, NoAnchor),
                               Cell(<<"M", "a", "d", "r", "i", "d", ",", " ", "S", "p", "a", "i", "n">>, NoAnchor), Cell(<<"S", "p", "a", "i", "n">>, NoAnchor) >> >>],
     pages |-> [u \in Urls |-> PageArt]]

EarlierFrame == generate_museum_dataset(EarlierSite).val

NoFrame == DataFrame(<<>>, <<>>)

NoTable == [header |-> <<>>, rows |-> <<>>]

-----------------------------------------------------------------------------
(* State *)

VARIABLES
    web,          \* what the network serves: the listing table, the detail pages
    cache,        \* ../data/museum_data.csv: Absent, or the file
    pc,           \* where get_museum_data stands: idle between calls
    regenerate,   \* the argument of the call in progress (or of the last call)
    target_table, \* generate_museum_dataset: the table found on the listing page
    df,           \* the frame under construction
    links,        \* add_features: what the link generator has yet to yield
    result,       \* what the last call returned or raised
    path,         \* how the last call was served: "hit", "generate" or "none"
    fetches,      \* network fetches made by the call in progress (or the last)
    cacheAtCall,  \* the cache file as the call in progress (or the last) found it
    attached,     \* the (i, url) pairs add_features wrote features for, this call
    persisted,    \* the frame whose to_csv wrote the cache file
    arg,          \* the input of a function checked on its own
    ret,          \* what that function returned or raised
    again         \* what a second application to its own result gave

sysvars == <<web, cache, pc, regenerate, target_table, df, links, result, path,
             fetches, cacheAtCall, attached, persisted>>

fnvars == <<arg, ret, again>>

vars == <<sysvars, fnvars>>

SysQuiet ==
    /\ web = EarlierSite
    /\ cache = Absent
    /\ pc = "idle"
    /\ regenerate = FALSE
    /\ target_table = NoTable
    /\ df = NoFrame
    /\ links = <<>>
    /\ result = NotCalled
    /\ path = "none"
    /\ fetches = 0
    /\ cacheAtCall = Absent
    /\ attached = <<>>
    /\ persisted = NoFrame

-----------------------------------------------------------------------------
(* Scraper.get_museum_data, step by step: every fetch is a step, since a    *)
(* fetch may fail and end the call.                                         *)

Init ==
    /\ \/ cache = Absent /\ persisted = NoFrame
       \/ persisted = EarlierFrame /\ cache = to_csv(persisted)
    /\ web \in Sites
    /\ pc = "idle"
    /\ regenerate = FALSE
    /\ target_table = NoTable
    /\ df = NoFrame
    /\ links = <<>>
    /\ result = NotCalled
    /\ path = "none"
    /\ fetches = 0
    /\ cacheAtCall = Absent
    /\ attached = <<>>
    /\ arg = <<>>
    /\ ret = NotCalled
    /\ again = NotCalled

\* The same had the file been opened for writing before the generation: the
\* raise leaves it empty.
AbortLeavingEmptyFile(exc) ==
    /\ pc' = "idle"
    /\ result' = Raised(exc)
    /\ cache' = [exists |-> TRUE, header |-> <<>>, lines |-> <<>>]
    /\ UNCHANGED <<web, regenerate, target_table, df, links, path,
                   cacheAtCall, attached, persisted, fnvars>>

\* The call ends by raising exc: nothing after the raise runs.
Abort(exc) ==
    /\ pc' = "idle"
    /\ result' = Raised(exc)
    /\ UNCHANGED <<web, cache, regenerate, target_table, df, links, path,
                   cacheAtCall, attached, persisted, fnvars>>

\* get_museum_data(regen), cache hit: return pd.read_csv(output_file)
GetCached(regen) ==
    /\ pc = "idle"
    /\ CacheHit(cache, regen)
    /\ regenerate' = regen
    /\ cacheAtCall' = cache
    /\ fetches' = 0
    /\ attached' = <<>>
    /\ path' = "hit"
    /\ result' = Returned(read_csv(cache))
    /\ UNCHANGED <<web, cache, pc, target_table, df, links, persisted, fnvars>>

\* get_museum_data(regen), otherwise: enter generate_museum_dataset
StartGeneration(regen) ==
    /\ pc = "idle"
    /\ ~CacheHit(cache, regen)
    /\ regenerate' = regen
    /\ cacheAtCall' = cache
    /\ fetches' = 0
    /\ attached' = <<>>
    /\ path' = "generate"
    /\ result' = NotCalled
    /\ pc' = "listing"
    /\ target_table' = NoTable
    /\ df' = NoFrame
    /\ links' = <<>>
    /\ UNCHANGED <<web, cache, persisted, fnvars>>

\* wp.page(...).html() answers: the table is parsed, the generator created
FetchListing ==
    /\ pc = "listing"
    /\ fetches' = fetches + 1
    /\ target_table' = web.table
    /\ df' = read_html(web.table)
    /\ links' = museum_wiki_link_generator(web.table)
    /\ pc' = "features"
    /\ UNCHANGED <<web, cache, regenerate, result, path, cacheAtCall, attached,
                   persisted, fnvars>>

\* wp.page(...).html() fails
FetchListingFails ==
    /\ pc = "listing"
    /\ fetches' = fetches + 1
    /\ Abort("ConnectionError")

\* add_features: the next (i, url) is fetched and its features attached
FetchDetail ==
    /\ pc = "features"
    /\ links # <<>>
    /\ Head(links)[1] < Len(df.rows)
    /\ \E features \in {get_museum_features(web.pages[Head(links)[2]])} :
          /\ features.kind = "return"
          /\ df' = AttachFeatures(df, Head(links)[1], features.val)
    /\ fetches' = fetches + 1
    /\ attached' = Append(attached, Head(links))
    /\ links' = Tail(links)
    /\ UNCHANGED <<web, cache, pc, regenerate, target_table, result, path,
                   cacheAtCall, persisted, fnvars>>

\* add_features: the page is fetched and get_museum_features raises
FetchDetailRaises ==
    /\ pc = "features"
    /\ links # <<>>
    /\ Head(links)[1] < Len(df.rows)
    /\ fetches' = fetches + 1
    /\ \E features \in {get_museum_features(web.pages[Head(links)[2]])} :
          /\ features.kind = "raise"
          /\ Abort(features.exc)

\* add_features: requests.get fails
FetchDetailFails ==
    /\ pc = "features"
    /\ links # <<>>
    /\ Head(links)[1] < Len(df.rows)
    /\ fetches' = fetches + 1
    /\ Abort("ConnectionError")

AddFeaturesDone == IF links = <<>> THEN TRUE ELSE Head(links)[1] >= Len(df.rows)

\* add_features returns; clean_museum_table returns the cleaned frame
Clean ==
    /\ pc = "features"
    /\ AddFeaturesDone
    /\ \E cleaned \in {clean_museum_table(df)} :
          /\ cleaned.kind = "return"
          /\ df' = cleaned.val
    /\ pc' = "persist"
    /\ UNCHANGED <<web, cache, regenerate, target_table, links, result, path,
                   fetches, cacheAtCall, attached, persisted, fnvars>>

\* add_features returns; clean_museum_table raises
CleanRaises ==
    /\ pc = "features"
    /\ AddFeaturesDone
    /\ UNCHANGED fetches
    /\ \E cleaned \in {clean_museum_table(df)} :
          /\ cleaned.kind = "raise"
          /\ Abort(cleaned.exc)

\* df.to_csv(output_file); return df
Persist ==
    /\ pc = "persist"
    /\ cache' = to_csv(df)
    /\ persisted' = df
    /\ result' = Returned(df)
    /\ pc' = "idle"
    /\ UNCHANGED <<web, regenerate, target_table, df, links, path, fetches,
                   cacheAtCall, attached, fnvars>>

Next ==
    \/ \E regen \in BOOLEAN : GetCached(regen)
    \/ \E regen \in BOOLEAN : StartGeneration(regen)
    \/ FetchListing
    \/ FetchListingFails
    \/ FetchDetail
    \/ FetchDetailRaises
    \/ FetchDetailFails
    \/ Clean
    \/ CleanRaises
    \/ Persist

Spec == Init /\ [][Next]_vars

-----------------------------------------------------------------------------
(* get_museum_data over any sequence of calls *)

\* C1: a call that returned with regenerate false while the cache file
\* existed made no fetch and returned what read_csv gives for that file,
\* leaving the file as it was; every other call that returned ran the whole
\* generation (the listing fetch at least), returned its frame and left
\* that frame's to_csv as the cache file.  No call made with the file
\* present and regenerate false ever fetches.
C1_CacheOrGenerate ==
    /\ (path # "none" /\ cacheAtCall.exists /\ ~regenerate) =>
          /\ fetches = 0
          /\ pc = "idle"
          /\ result = Returned(read_csv(cacheAtCall))
          /\ cache = cacheAtCall
    /\ (path # "none" /\ ~(cacheAtCall.exists /\ ~regenerate)
          /\ pc = "idle" /\ result.kind = "return") =>
          /\ fetches >= 1
          /\ result = generate_museum_dataset(web)
          /\ cache = to_csv(result.val)

\* A first call found no cache, generated and wrote it; the second call,
\* with regenerate false, was served from that file without a fetch.
C1_Witness ==
    /\ path = "hit"
    /\ fetches = 0
    /\ ~regenerate
    /\ persisted # NoFrame
    /\ persisted # EarlierFrame
    /\ cacheAtCall = to_csv(persisted)
    /\ result = Returned(read_csv(cacheAtCall))

\* C2: while a generation run is under way, and after it has ended by
\* raising, the cache file is what the run found (absent if it was absent);
\* and the call after an aborted run, made with regenerate false over a
\* cache that was there before, returns that file's content without a fetch.
C2_AbortLeavesCache ==
    [][ /\ (path = "generate" /\ (pc # "idle" \/ result.kind = "raise")) =>
              cache = cacheAtCall
        /\ (path = "generate" /\ pc = "idle" /\ result.kind = "raise"
              /\ cacheAtCall.exists /\ ~regenerate') =>
              /\ pc' = "idle"
              /\ fetches' = 0
              /\ result' = Returned(read_csv(cacheAtCall)) ]_vars

\* A regenerating run over an existing cache fetched the listing and then
\* ended by raising at a detail page or in the cleaning.
C2_Witness ==
    /\ path = "generate"
    /\ pc = "idle"
    /\ result.kind = "raise"
    /\ fetches >= 2
    /\ cacheAtCall.exists
    /\ cache = cacheAtCall

\* C3: the frame a cache hit returns has the columns name, type,
\* collection_size, visitors, city, country and the rows, in order, of the
\* frame whose to_csv wrote the file.
C3_PersistThenLoad ==
    (path = "hit" /\ result.kind = "return" /\ cacheAtCall = to_csv(persisted)) =>
        /\ result.val.columns = CanonicalColumns
        /\ result.val.rows = persisted.rows

\* C4: every (i, url) add_features wrote features for has its url from the
\* row at position i of the raw-table parse.
C4_IndexIsRowPosition ==
    \A k \in DOMAIN attached :
        LET i   == attached[k][1]
            trs == KeptRows(target_table)
        IN  /\ i + 1 <= Len(trs)
            /\ Len(trs[i + 1]) >= 1
            /\ trs[i + 1][1].anchor.a = "href"
            /\ attached[k][2] = WikiPrefix \o trs[i + 1][1].anchor.href

-----------------------------------------------------------------------------
(* Scraper.clean_collection_size on its own *)

\* Numerators <digits>[,digits]*[.digits]: the text, and the number it
\* writes as scaled / 10^places
SizeNumerators ==
    { [text |-> <<"3">>, scaled |-> 3, places |-> 0],
      [text |-> <<"4", ".", "1">>, scaled |-> 41, places |-> 1],
      [text |-> <<"1", ",", "2", "0", "0">>, scaled |-> 1200, places |-> 0],
      [text |-> <<"1", ",", "2", "0", "0", ".", "5">>, scaled |-> 12005, places |-> 1],
      [text |-> <<"0", ".", "2", "5">>, scaled |-> 25, places |-> 2] }

\* Unit words, and whether the word is "million" in some letter case
SizeUnits ==
    { [text |-> <<"m", "i", "l", "l", "i", "o", "n">>, million |-> TRUE],
      [text |-> <<"M", "i", "l", "l", "i", "o", "n">>, million |-> TRUE],
      [text |-> <<"M", "I", "L", "L", "I", "O", "N">>, million |-> TRUE],
      [text |-> <<"i", "t", "e", "m", "s">>, million |-> FALSE],
      [text |-> <<"m", "i", "l", "l", "i", "o", "n", "s">>, million |-> FALSE] }

\* The empty string, citation-only strings, strings with no alphabetic unit
SizeUnitless == { <<>>, <<" ", " ">>, <<"[", "1", "]">>, <<"~", "[", "1", "2", "]", " ">>, <<"1", ",", "2", "0", "0">>, <<"4", ".", "1", " ">>, <<"1", "2", " ", "[", "3", "]">>, <<"0", ".", "5", " ", "%">> }

\* Strings whose numeric token is no number
SizeMalformed == { <<"1", ".", "2", ".", "3", " ", "m", "i", "l", "l", "i", "o", "n">>, <<",", " ", "i", "t", "e", "m", "s">>, <<".", " ", "m">>, <<"1", ".", ".", "2", " ", "w", "o", "r", "k", "s">>, <<",", ",", ",", " ", "m", "i", "l", "l", "i", "o", "n">>, <<"m", "i", "l", "l", "i", "o", "n">>, <<"a", "b", "o", "u", "t", " ", "3", " ", "m", "i", "l", "l", "i", "o", "n">> }

SizeInputs ==
    { [kind |-> "quantity", text |-> pre \o n.text \o sep \o u.text \o post,
       scaled |-> n.scaled, places |-> n.places, million |-> u.million] :
          pre \in { <<>>, <<" ">>, <<ApproxGlyph>>, <<"~">> },
          n \in SizeNumerators,
          sep \in { <<>>, <<" ">> },
          u \in SizeUnits,
          post \in { <<>>, <<" ">>, <<"[", "1", "]">>, <<" ", "[", "1", "2", "]">> } }
    \cup { [kind |-> "unitless", text |-> t, scaled |-> 0, places |-> 0,
            million |-> FALSE] : t \in SizeUnitless }
    \cup { [kind |-> "malformed", text |-> t, scaled |-> 0, places |-> 0,
            million |-> FALSE] : t \in SizeMalformed }

InitSize ==
    /\ SysQuiet
    /\ arg \in SizeInputs
    /\ ret = NotCalled
    /\ again = NotCalled

CleanCollectionSize ==
    /\ ret' = clean_collection_size(arg.text)
    /\ UNCHANGED <<arg, again, sysvars>>

SpecSize == InitSize /\ [][CleanCollectionSize]_vars

\* C7: clean_collection_size raises for no input string, and returns the
\* missing marker for every string whose numeric token is no number.
C7_NeverRaises ==
    ret # NotCalled =>
        /\ ret.kind = "return"
        /\ arg.kind = "malformed" => ret.val = NaN

\* C8: for <digits>[,digits]*[.digits] and a unit word, with optional
\* whitespace around, an optional approximation glyph before and an optional
\* citation after, the result is the float the numerator writes (commas
\* removed), multiplied by 1,000,000 when the unit is "million" in any
\* letter case and as it is for any other unit word; for the empty string,
\* a citation-only string and a string with no alphabetic unit it is the
\* missing marker.
C8_NumeratorTimesUnit ==
    ret # NotCalled =>
        /\ arg.kind = "quantity" =>
              ret = Returned(Float(IF arg.million
                                   THEN FMulNat(ParseFloat(arg.scaled, arg.places), 10 ^ 6)
                                   ELSE ParseFloat(arg.scaled, arg.places)))
        /\ arg.kind = "unitless" => ret = Returned(NaN)

\* "~1,200.5 Million [12]" gave 1200500000.0
C8_Witness ==
    /\ arg.kind = "quantity"
    /\ arg.text = <<"~", "1", ",", "2", "0", "0", ".", "5", " ", "M", "i", "l", "l", "i", "o", "n", " ", "[", "1", "2", "]">>
    /\ ret = Returned(Float(FOfNat(1200500000)))

-----------------------------------------------------------------------------
(* Scraper.museum_wiki_link_generator on its own *)

\* A first cell whose <a> has no href, and one whose href is empty
RowNoHref == << Cell(<<"P", "r", "a", "d", "o">>, AnchorWithoutHref), Cell(<<"3", ",", "2", "0", "0", ",", "0", "0", "0">>, NoAnchor) >>

RowEmptyHref == << Cell(<<"U", "f", "f", "i", "z", "i">>, Anchor(<<>>)), Cell(<<"2", ",", "7", "0", "0", ",", "0", "0", "0">>, NoAnchor) >>

LinkTables ==
    {[header |-> ListingHeader, rows |-> r] : r \in SeqsUpTo(ListingRows \cup {RowNoHref, RowEmptyHref}, MaxLinkRows)}

InitLinks ==
    /\ SysQuiet
    /\ arg \in LinkTables
    /\ ret = NotCalled
    /\ again = NotCalled

\* list(museum_wiki_link_generator(table))
GenerateLinks ==
    /\ ret' = Returned(museum_wiki_link_generator(arg))
    /\ UNCHANGED <<arg, again, sysvars>>

SpecLinks == InitLinks /\ [][GenerateLinks]_vars

\* The rows of at least two cells whose first cell links to a non-empty
\* destination, in row order
ValidLinkRows(table) ==
    LET Valid(tr) == /\ Len(tr) >= 2
                     /\ tr[1].anchor.a = "href"
                     /\ Len(tr[1].anchor.href) > 0
    IN  SelectSeq(table.rows, Valid)

\* C5: for a table with N valid rows the generator yields N pairs, the j-th
\* (from 0) being (j, prefix + href of the j-th valid row); the other rows
\* are skipped, and with no valid row nothing is yielded.
C5_OnePairPerValidRow ==
    ret # NotCalled =>
        /\ ret.kind = "return"
        /\ Len(ret.val) = Len(ValidLinkRows(arg))
        /\ \A j \in DOMAIN ret.val :
              ret.val[j] = <<j - 1, WikiPrefix \o ValidLinkRows(arg)[j][1].anchor.href>>

\* Two valid rows around one that is skipped
C5_Witness ==
    /\ ret # NotCalled
    /\ arg.rows = <<RowMPlus, RowEmptyHref, RowLouvre>>
    /\ ret.val = << <<0, WikiPrefix \o HrefA>>, <<1, WikiPrefix \o HrefB>> >>

-----------------------------------------------------------------------------
(* Scraper.get_museum_features, and add_features writing what it gives into *)
(* the row of a one-museum table                                           *)

InfoboxRows ==
    { << <<"T", "y", "p", "e">>, <<"A", "r", "t">> >>,
      << <<"t", "y", "p", "e">>, <<"H", "i", "s", "t", "o", "r", "y">> >>,
      << <<"G", "e", "n", "r", "e">>, <<"S", "c", "i", "e", "n", "c", "e">> >>,
      << <<"H", "o", "l", "d", "i", "n", "g", "s">>, <<"1", ".", "2", " ", "m", "i", "l", "l", "i", "o", "n", "[", "3", "]">> >>,
      << <<"C", "o", "l", "l", "e", "c", "t", "i", "o", "n", " ", "s", "i", "z", "e">>, <<"1", ".", "2", ".", "3", " ", "m", "i", "l", "l", "i", "o", "n">> >>,
      << <<"L", "o", "c", "a", "t", "i", "o", "n">>, <<"H", "o", "n", "g", " ", "K", "o", "n", "g">> >>,
      << <<"E", "s", "t", "a", "b", "l", "i", "s", "h", "e", "d">> >> }

OneMuseumTable == [header |-> ListingHeader, rows |-> <<RowMPlus>>]

InitFeatures ==
    /\ SysQuiet
    /\ arg \in {NoInfobox} \cup {Infobox(r) : r \in SeqsUpTo(InfoboxRows, MaxInfoboxRows)}
    /\ ret = NotCalled
    /\ again = NotCalled

\* add_features over the one-museum table, every URL serving the page
AddFeaturesOfPage ==
    /\ ret' = add_features(read_html(OneMuseumTable), OneMuseumTable,
                           [u \in Urls |-> arg])
    /\ UNCHANGED <<arg, again, sysvars>>

SpecFeatures == InitFeatures /\ [][AddFeaturesOfPage]_vars

\* The infobox rows of at least two cells whose lower-cased key maps to f
RowsFor(page, f) ==
    IF ~page.present THEN {}
    ELSE { i \in DOMAIN page.rows :
              /\ Len(page.rows[i]) >= 2
              /\ Lower(page.rows[i][1]) \in
                    (IF f = "type" THEN { <<"t", "y", "p", "e">>, <<"g", "e", "n", "r", "e">> }
                     ELSE { <<"c", "o", "l", "l", "e", "c", "t", "i", "o", "n", " ", "s", "i", "z", "e">>, <<"h", "o", "l", "d", "i", "n", "g", "s">> }) }

LastRowFor(page, f) ==
    page.rows[CHOOSE i \in RowsFor(page, f) : \A k \in RowsFor(page, f) : k <= i]

\* C6: for every page the row gets, for type, the text of the last infobox
\* row whose key maps to type, or "N/A" when there is none; and for
\* collection_size, clean_collection_size of the text of the last row whose
\* key maps to it, or the missing marker when there is none.
C6_LastMatchOrDefault ==
    ret # NotCalled =>
        /\ ret.kind = "return"
        /\ ret.val.rows[1]["type"] =
              (IF RowsFor(arg, "type") = {} THEN Str(<<"N", "/", "A">>)
               ELSE Str(LastRowFor(arg, "type")[2]))
        /\ ret.val.rows[1]["collection_size"] =
              (IF RowsFor(arg, "collection_size") = {} THEN NaN
               ELSE clean_collection_size(LastRowFor(arg, "collection_size")[2]).val)

-----------------------------------------------------------------------------
(* Scraper.convert_million_values on its own, and applied to its own result *)

VisitorsCells ==
    { Str(<<"4", ".", "3", " ", "m", "i", "l", "l", "i", "o", "n">>), Str(<<"1", "2", " ", "M", "i", "l", "l", "i", "o", "n">>), Str(<<"1", ",", "2", "0", "0", ".", "5", " ", "m", "i", "l", "l", "i", "o", "n">>),
      Str(<<" ", "4", ".", "3", " ", "m", "i", "l", "l", "i", "o", "n">>), Str(<<"8", ",", "7", "0", "0", ",", "0", "0", "0">>), Str(<<"4", ",", "3", "0", "0", ",", "0", "0", "0">>),
      Str(<<"4", ".", "3", " ", "m", "i", "l", "l", "i", "o", "n", "s">>), Str(<<"o", "v", "e", "r", " ", "2", " ", "m", "i", "l", "l", "i", "o", "n", " ", "i", "n", " ", "2", "0", "2", "3">>),
      Str(<<"m", "i", "l", "l", "i", "o", "n", "s">>), NaN }

InitMillion ==
    /\ SysQuiet
    /\ arg \in
      { DataFrame(<<"name", "visitors">>,
                  [i \in DOMAIN cells |->
                      [c \in {"name", "visitors"} |->
                          IF c = "name" THEN Str(<<"M", "_", "p", "l", "u", "s">>) ELSE cells[i]]]) :
            cells \in SeqsUpTo(VisitorsCells, MaxFrameRows) }
    /\ ret = NotCalled
    /\ again = NotCalled

ConvertMillionValues ==
    /\ ret' = convert_million_values(arg)
    /\ UNCHANGED <<arg, again, sysvars>>

ConvertMillionValuesAgain ==
    /\ ret.kind = "return"
    /\ again' = convert_million_values(ret.val)
    /\ UNCHANGED <<arg, ret, sysvars>>

NextMillion ==
    \/ ConvertMillionValues
    \/ ConvertMillionValuesAgain

SpecMillion == InitMillion /\ [][NextMillion]_vars

\* The whole text, blanks around it aside, is <number>[,number]*[.decimal],
\* whitespace, "million" in any letter case
IsMillionText(s) ==
    LET t   == Strip(s)
        n1  == RunGroupedDigits(t)
        r1  == Drop(t, n1)
        dec == IF r1 # <<>> /\ Head(r1) = "." /\ RunDigits(Tail(r1)) >= 1
               THEN 1 + RunDigits(Tail(r1)) ELSE 0
        r2  == Drop(r1, dec)
    IN  n1 >= 1 /\ Lower(Drop(r2, RunSpaces(r2))) = TxtMillion

\* C9: a visitors cell that is not, as a whole, a number followed by
\* "million" is left as it was, wherever "million" occurs in it; the name
\* column is left as it was; and a second application changes nothing.
C9_OnlyWholeCellMatches ==
    ret # NotCalled =>
        /\ ret.kind = "return"
        /\ ret.val.columns = arg.columns
        /\ \A i \in DOMAIN arg.rows :
              /\ ret.val.rows[i]["name"] = arg.rows[i]["name"]
              /\ (arg.rows[i]["visitors"].kind = "str"
                    => ~IsMillionText(arg.rows[i]["visitors"].val))
                 => ret.val.rows[i]["visitors"] = arg.rows[i]["visitors"]
        /\ again # NotCalled => again = ret

-----------------------------------------------------------------------------
(* Scraper.clean_museum_table on its own *)

\* A museum as the listing shows it: its visitors text with the integer the
\* text denotes, its name with the name after "+" becomes "_plus", its city
\* with the city's first comma-separated segment
Museums ==
    { [visitors |-> <<"8", ",", "7", "0", "0", ",", "0", "0", "0">>, denotes |-> 8700000,
       name |-> <<"L", "o", "u", "v", "r", "e">>, nameOut |-> <<"L", "o", "u", "v", "r", "e">>,
       city |-> <<"P", "a", "r", "i", "s">>, cityOut |-> <<"P", "a", "r", "i", "s">>],
      [visitors |-> <<"4", ".", "3", " ", "m", "i", "l", "l", "i", "o", "n">>, denotes |-> 4300000,
       name |-> <<"M", "+">>, nameOut |-> <<"M", "_", "p", "l", "u", "s">>,
       city |-> <<"H", "o", "n", "g", " ", "K", "o", "n", "g", ",", " ", "C", "h", "i", "n", "a">>, cityOut |-> <<"H", "o", "n", "g", " ", "K", "o", "n", "g">>],
      [visitors |-> <<"4", ".", "1", " ", "m", "i", "l", "l", "i", "o", "n">>, denotes |-> 4100000,
       name |-> <<"A", "+", "B", "+">>, nameOut |-> <<"A", "_", "p", "l", "u", "s", "B", "_", "p", "l", "u", "s">>,
       city |-> <<"L", "o", "n", "d", "o", "n", ",", " ", "E", "n", "g", "l", "a", "n", "d", ",", " ", "U", "K">>, cityOut |-> <<"L", "o", "n", "d", "o", "n">>],
      [visitors |-> <<"2", ".", "0", " ", "m", "i", "l", "l", "i", "o", "n">>, denotes |-> 2000000,
       name |-> <<"P", "r", "a", "d", "o">>, nameOut |-> <<"P", "r", "a", "d", "o">>,
       city |-> <<"M", "a", "d", "r", "i", "d", ",", "S", "p", "a", "i", "n">>, cityOut |-> <<"M", "a", "d", "r", "i", "d">>] }

\* The frame add_features hands over for these museums
MuseumFrame(cases) ==
    DataFrame(ListingHeader \o <<TYPE, COLLECTION_SIZE>>,
              [i \in DOMAIN cases |->
                  [c \in Range(ListingHeader) \cup {TYPE, COLLECTION_SIZE} |->
                      CASE c = "Name" -> Str(cases[i].name)
                        [] c = "Visitors in 2023 or 2024" -> Str(cases[i].visitors)
                        [] c = "City" -> Str(cases[i].city)
                        [] c = "Country" -> Str(<<"U", "t", "o", "p", "i", "a">>)
                        [] c = TYPE -> Str(<<"A", "r", "t">>)
                        [] OTHER -> NaN]])

\* Each museum's visitors text gets an optional ">" before, and an optional
\* parenthetical annotation and citation marker after
InitClean ==
    /\ SysQuiet
    /\ arg \in SeqsUpTo(
      { [m EXCEPT !.visitors = gt \o m.visitors \o note \o cite] :
            m \in Museums, gt \in { <<>>, <<">">> }, note \in { <<>>, <<" ", "(", "2", "0", "2", "3", ")">> },
            cite \in { <<>>, <<"[", "1", "]">> } },
          MaxFrameRows)
    /\ ret = NotCalled
    /\ again = NotCalled

CleanMuseumTable ==
    /\ ret' = clean_museum_table(MuseumFrame(arg))
    /\ UNCHANGED <<arg, again, sysvars>>

SpecClean == InitClean /\ [][CleanMuseumTable]_vars

\* C10: the output has the columns name, type, collection_size, visitors,
\* city, country, a row for every input row in the same order, and in each
\* row the integer the visitors text denotes, the name with every "+"
\* replaced by "_plus" and the first comma-separated segment of the city.
C10_CleansEveryRow ==
    ret # NotCalled =>
        /\ ret.kind = "return"
        /\ ret.val.columns = <<"name", "type", "collection_size", "visitors", "city", "country">>
        /\ Len(ret.val.rows) = Len(arg)
        /\ \A i \in DOMAIN arg :
              /\ ret.val.rows[i]["visitors"] = IntCell(arg[i].denotes)
              /\ ret.val.rows[i]["name"] = Str(arg[i].nameOut)
              /\ ret.val.rows[i]["city"] = Str(arg[i].cityOut)

====
